---- MODULE Spec2Model ----
(***************************************************************************)
(* Model of the sensitive-data filter service                              *)
(*   src/unnamed/part_000  (common/sensitiveDataFilterService.ts)          *)
(*   src/src/platform/sensitiveData/node/sensitiveDataFilterServiceImpl.ts *)
(*                                                                         *)
(* A text is a run-length encoded string: a sequence of runs [c, n], n > 0 *)
(* copies of the character c.  Offsets, lengths and slices are computed by  *)
(* arithmetic on the runs, so CHUNK_SIZE keeps the value it has in the     *)
(* code.  A pattern source is one of four regular-expression shapes:       *)
(*   [kind |-> "run",  c, n]   the expression  c{n}                        *)
(*   [kind |-> "word", c, n]   the expression  \bc{n}\b                    *)
(*   [kind |-> "any"]          the expression  .*                          *)
(*   [kind |-> "bad"]          an expression the RegExp constructor rejects*)
(* and [kind |-> "empty"] is the empty string.                             *)
(***************************************************************************)
EXTENDS Integers, Sequences, FiniteSets, TLC

\* ------------------------------------------------------------------------
\* Program constants
\* ------------------------------------------------------------------------
CHUNK_SIZE == 50 * 1024

overlap == 100

\* ------------------------------------------------------------------------
\* Strings (run-length encoded) and String.prototype.slice
\* ------------------------------------------------------------------------
Min(a, b) == IF a < b THEN a ELSE b

Max(a, b) == IF a > b THEN a ELSE b

Run(c, n) == [c |-> c, n |-> n]

\* F(v): v is computed once and F uses the value
Bind(v, F(_)) == CHOOSE r \in {F(x) : x \in {v}} : TRUE

RECURSIVE RunStart(_, _)
RunStart(str, i) == IF i = 1 THEN 0 ELSE RunStart(str, i - 1) + str[i - 1].n

RunEnd(str, i) == RunStart(str, i) + str[i].n

length(str) == IF str = <<>> THEN 0 ELSE RunEnd(str, Len(str))

KeepRun(r) == r.n > 0

slice(str, from, to) ==
    SelectSeq([i \in 1..Len(str) |->
                  Run(str[i].c, Min(RunEnd(str, i), to) - Max(RunStart(str, i), from))],
              KeepRun)

\* ------------------------------------------------------------------------
\* Regular expressions: new RegExp(source, 'gi') and RegExp.prototype.test
\* ------------------------------------------------------------------------
ToLower(c) == IF c = "S" THEN "s" ELSE IF c = "T" THEN "t" ELSE c

IsWordChar(c) == c # " "

\* the 'i' flag: the subject is compared case-insensitively; adjacent runs
\* that become equal are one run
RECURSIVE Fold(_)
Fold(str) ==
    IF str = <<>> THEN <<>>
    ELSE LET rest == Fold(Tail(str))
             c == ToLower(Head(str).c)
         IN IF rest # <<>> /\ Head(rest).c = c
            THEN <<Run(c, Head(str).n + Head(rest).n)>> \o Tail(rest)
            ELSE <<Run(c, Head(str).n)>> \o rest

\* new RegExp(source, 'gi') throws a SyntaxError on a malformed expression
RegExpThrows(source) == source.kind = "bad"

\* the index at which the expression matches inside run i of the folded
\* subject s, searching from lastIndex; -1 when it does not
MatchInRun(source, s, i, lastIndex) ==
    LET a == RunStart(s, i)
        b == RunEnd(s, i)
    IN IF s[i].c # ToLower(source.c) THEN -1
       ELSE IF source.kind = "run"
       THEN IF b - Max(a, lastIndex) >= source.n THEN Max(a, lastIndex) ELSE -1
       ELSE \* "word": \b before the first and after the last character
            IF /\ a >= lastIndex
               /\ b - a = source.n
               /\ IsWordChar(s[i].c)
               /\ (i = 1 \/ ~IsWordChar(s[i - 1].c))
               /\ (i = Len(s) \/ ~IsWordChar(s[i + 1].c))
            THEN a ELSE -1

\* regex.test(str) of a global expression whose lastIndex is lastIndex:
\* the leftmost match at or after lastIndex; lastIndex becomes the end of the
\* match, or 0 when there is none.  The expression .* matches what is left
\* of the subject from lastIndex on, the empty string too (a text has no line
\* terminator).
RegExpTest(source, str, lastIndex) ==
    Bind(Fold(str), LAMBDA s :
    LET hits == {i \in 1..Len(s) : MatchInRun(source, s, i, lastIndex) >= 0}
    IN IF source.kind = "any"
       THEN IF lastIndex <= length(str)
            THEN [found |-> TRUE, lastIndex |-> length(str)]
            ELSE [found |-> FALSE, lastIndex |-> 0]
       ELSE IF hits = {} THEN [found |-> FALSE, lastIndex |-> 0]
       ELSE LET i == CHOOSE j \in hits : \A k \in hits : j <= k
            IN [found |-> TRUE,
                lastIndex |-> MatchInRun(source, s, i, lastIndex) + source.n])

\* ------------------------------------------------------------------------
\* Bounds and inputs
\* ------------------------------------------------------------------------
\* the longest text has MaxChunks full chunks and a tail
MaxChunks == 1

\* calls of checkForSensitiveData that can be pending or held at one time
ScanIds == {1, 2}

Src(kind, c, n) == [kind |-> kind, c |-> c, n |-> n]

BadSrc == [kind |-> "bad"]

EmptySrc == [kind |-> "empty"]

AnySrc == [kind |-> "any"]

\* SensitiveDataPattern
Pattern(name, category, pattern) ==
    [name |-> name, category |-> category, pattern |-> pattern]

\* the built-in table, in its declared order, reduced to two of its rules:
\*   gh[pousr]_[A-Za-z0-9_]{36,}       as  s{40}
\*   \b4[0-9]{12}(?:[0-9]{3})?\b       as  \b4{13}\b
BUILT_IN_PATTERNS ==
    << Pattern("github-token", "API Key", Src("run", "s", 40)),
       Pattern("credit-card-visa", "Credit Card", Src("word", "4", 13)) >>

\* an entry of the custom pattern setting: an object, or null
Custom(name, category, pattern) ==
    [tag |-> "object", name |-> name, category |-> category, pattern |-> pattern]

NullEntry == [tag |-> "null"]

\* values of the custom pattern setting that respect its declared type
CustomLists ==
    { << >>,
      << Custom("", "Custom", Src("run", "s", 3)),
         Custom("Pattern 1", "Test", Src("run", "s", 140)),
         Custom("Invalid Pattern", "Custom", BadSrc),
         Custom("github-token", "Custom", Src("word", "4", 13)),
         Custom("No Pattern", "Custom", EmptySrc),
         Custom("No Category", "", Src("run", "s", 3)),
         Custom("Long", "Test", Src("run", "s", 141)) >>,
      << Custom("Pattern 2", "Test", Src("run", "T", 60)) >> }

\* a custom rule whose expression matches the empty string
NullableCustomLists ==
    { << Custom("Anything", "Custom", AnySrc) >> }

\* values of the setting as the settings file can hold them
UntypedCustomLists ==
    { << NullEntry, Custom("Pattern 1", "Test", Src("run", "s", 140)) >> }

\* texts handed to checkForSensitiveData: the empty text, three texts of the
\* small-input path (the third of length CHUNK_SIZE) and two of the
\* large-input path (a run of 141 s that starts 40 characters before the first
\* chunk boundary; a run of 20 digits that the end of the first window cuts
\* after 13, and a run of 60 s in the last window)
Texts ==
    { << >>,
      << Run(" ", 2), Run("S", 140), Run(" ", 1), Run("4", 13) >>,
      << Run("t", 60) >>,
      << Run("x", CHUNK_SIZE - 141), Run("s", 141) >>,
      << Run("x", CHUNK_SIZE - 40), Run("s", 141), Run("x", 50) >>,
      << Run("x", CHUNK_SIZE + 86), Run(" ", 1), Run("4", 20), Run(" ", 1),
         Run("x", (MaxChunks - 1) * CHUNK_SIZE + 92), Run("s", 30), Run("S", 30) >> }

\* ------------------------------------------------------------------------
\* The service: the two cached fields and the regular-expression objects
\* ------------------------------------------------------------------------
UNDEFINED == [def |-> FALSE]

Defined(v) == [def |-> TRUE, val |-> v]

\* the identities of the RegExp objects of one cache build: <<gen, k>> is the
\* k-th object built by build gen; heap[gen][k] is its lastIndex
Gens == 0..Cardinality(ScanIds)

SetLastIndex(heap, ref, v) == [heap EXCEPT ![ref[1]][ref[2]] = v]

isEnabledAlways(cfg) == TRUE

isEnabled(cfg) == cfg.enabled

\* a field of a custom entry is used when it is truthy
TruthyStringIfDefined(str) == TRUE

TruthyString(str) == str # ""

TruthySource(source) == source.kind # "empty"

\* the loop over the custom entries; reading a field of null throws
RECURSIVE MergeCustom(_, _)
MergeCustom(patterns, customPatterns) ==
    IF customPatterns = << >> THEN [threw |-> FALSE, patterns |-> patterns]
    ELSE LET custom == Head(customPatterns)
         IN IF custom.tag = "null" THEN [threw |-> TRUE, patterns |-> patterns]
            ELSE IF /\ TruthyString(custom.name)
                    /\ TruthyString(custom.category)
                    /\ TruthySource(custom.pattern)
            THEN MergeCustom(Append(patterns,
                                    Pattern(custom.name, custom.category, custom.pattern)),
                             Tail(customPatterns))
            ELSE MergeCustom(patterns, Tail(customPatterns))

\* getActivePatterns(): the cached list, or the list it builds and caches
getActivePatternsUncached(cfg, svc) ==
    LET m == MergeCustom(IF cfg.useBuiltIn THEN BUILT_IN_PATTERNS ELSE << >>,
                         cfg.customPatterns)
    IN IF m.threw THEN [threw |-> TRUE, ret |-> << >>, svc |-> svc]
       ELSE [threw |-> FALSE, ret |-> m.patterns, svc |-> svc]

getActivePatterns(cfg, svc) ==
    IF svc._activePatterns.def
    THEN [threw |-> FALSE, ret |-> svc._activePatterns.val, svc |-> svc]
    ELSE LET m == MergeCustom(IF cfg.useBuiltIn THEN BUILT_IN_PATTERNS ELSE << >>,
                              cfg.customPatterns)
         IN IF m.threw THEN [threw |-> TRUE, ret |-> << >>, svc |-> svc]
            ELSE [threw |-> FALSE, ret |-> m.patterns,
                  svc |-> [svc EXCEPT !._activePatterns = Defined(m.patterns)]]

\* CompiledPattern
CompiledPattern(source, ref, name, category) ==
    [regex |-> [source |-> source, ref |-> ref], name |-> name, category |-> category]

\* the loop that compiles the active patterns: a pattern whose expression is
\* rejected is caught and skipped
RECURSIVE CompileBreaks(_, _, _)
CompileBreaks(patterns, compiled, gen) ==
    IF patterns = << >> THEN compiled
    ELSE LET pattern == Head(patterns)
         IN IF RegExpThrows(pattern.pattern) THEN compiled
            ELSE CompileBreaks(Tail(patterns),
                               Append(compiled,
                                      CompiledPattern(pattern.pattern,
                                                      <<gen, Len(compiled) + 1>>,
                                                      pattern.name, pattern.category)),
                               gen)

RECURSIVE Compile(_, _, _)
Compile(patterns, compiled, gen) ==
    IF patterns = << >> THEN compiled
    ELSE LET pattern == Head(patterns)
         IN IF RegExpThrows(pattern.pattern)
            THEN Compile(Tail(patterns), compiled, gen)
            ELSE Compile(Tail(patterns),
                         Append(compiled,
                                CompiledPattern(pattern.pattern,
                                                <<gen, Len(compiled) + 1>>,
                                                pattern.name, pattern.category)),
                         gen)

\* gen names the objects a build creates
_getCompiledPatterns(cfg, svc, heap, gen) ==
    IF svc._compiledPatterns.def
    THEN [threw |-> FALSE, ret |-> svc._compiledPatterns.val, svc |-> svc, heap |-> heap]
    ELSE LET a == getActivePatterns(cfg, svc)
         IN IF a.threw
            THEN [threw |-> TRUE, ret |-> << >>, svc |-> svc, heap |-> heap]
            ELSE LET c == Compile(a.ret, << >>, gen)
                 IN [threw |-> FALSE, ret |-> c,
                     svc |-> [a.svc EXCEPT !._compiledPatterns = Defined(c)],
                     heap |-> [heap EXCEPT ![gen] = [k \in 1..Len(c) |-> 0]]]

invalidateCacheKeepsCompiled(svc) == [svc EXCEPT !._activePatterns = UNDEFINED]

invalidateCacheKeepsActive(svc) == [svc EXCEPT !._compiledPatterns = UNDEFINED]

invalidateCache(svc) ==
    [_compiledPatterns |-> UNDEFINED, _activePatterns |-> UNDEFINED]

\* SensitiveDataMatch
MatchSwapped(category, patternName) ==
    [category |-> patternName, patternName |-> category]

Match(category, patternName) == [category |-> category, patternName |-> patternName]

\* NullSensitiveDataFilterService: it has no fields; what its methods return
NullCheckForSensitiveData(text) == [pc |-> "resolved", matches |-> << >>]

NullIsEnabled == FALSE

NullGetActivePatterns == << >>

NullInvalidateCache == [threw |-> FALSE]

\* ------------------------------------------------------------------------
\* The scan engine
\* ------------------------------------------------------------------------
\* pattern.regex.lastIndex = 0 before the test of the small-input path
ResetForSyncSkipped(heap, ref) == heap

ResetForSyncOfFirst(heap, ref) == SetLastIndex(heap, <<ref[1], 1>>, 0)

ResetForSync(heap, ref) == SetLastIndex(heap, ref, 0)

\* the condition under which the small-input path records a Match
SyncRecordsSeenIgnored(found, seenPatterns, name) == found

SyncRecordsFoundIgnored(found, seenPatterns, name) == name \notin seenPatterns

SyncRecords(found, seenPatterns, name) == found /\ name \notin seenPatterns

\* the for loop of _checkTextSync from the k-th pattern on
RECURSIVE SyncLoop(_, _, _, _, _, _)
SyncLoop(text, patterns, k, matches, seenPatterns, heap) ==
    IF k > Len(patterns) THEN [matches |-> matches, heap |-> heap]
    ELSE LET pattern == patterns[k]
             ref == pattern.regex.ref
             h0 == ResetForSync(heap, ref)
             t == RegExpTest(pattern.regex.source, text, h0[ref[1]][ref[2]])
             h1 == SetLastIndex(h0, ref, t.lastIndex)
         IN IF SyncRecords(t.found, seenPatterns, pattern.name)
            THEN SyncLoop(text, patterns, k + 1,
                          Append(matches, Match(pattern.category, pattern.name)),
                          seenPatterns \cup {pattern.name}, h1)
            ELSE SyncLoop(text, patterns, k + 1, matches, seenPatterns, h1)

_checkTextSync(text, patterns, heap) == SyncLoop(text, patterns, 1, << >>, {}, heap)

\* the end of the window that starts at offset
WindowEndNoOverlap(offset, len) == Min(offset + CHUNK_SIZE, len)

WindowEnd(offset, len) == Min(offset + CHUNK_SIZE + overlap, len)

\* what a run of _checkTextAsync hands back: it is suspended at the await
\* (pc "yield", to go on with pattern i at offset) or it has returned
Suspended(i, offset, matches, seenPatterns, heap) ==
    [pc |-> "yield", i |-> i, offset |-> offset, matches |-> matches,
     seenPatterns |-> seenPatterns, heap |-> heap]

Returned(matches, heap) ==
    [pc |-> "resolved", i |-> 0, offset |-> 0, matches |-> matches,
     seenPatterns |-> {}, heap |-> heap]

\* offset += CHUNK_SIZE
NextOffsetStuck(offset) == offset

NextOffset(offset) == offset + CHUNK_SIZE

\* the condition of the await: offset is the start of the next window
YieldsBeforeAlways(offset, len) == TRUE

YieldsBefore(offset, len) == offset < len

\* pattern.regex.lastIndex = 0 before the test of a window
ResetForWindowSkipped(heap, ref) == heap

ResetForWindow(heap, ref) == SetLastIndex(heap, ref, 0)

\* the body of the while loop up to the test: whether the window of text at
\* offset has a match of pattern, and the heap the test leaves
TestWindow(text, pattern, offset, heap) ==
    LET ref == pattern.regex.ref
    IN Bind(slice(text, offset, WindowEnd(offset, length(text))), LAMBDA chunk :
       Bind(ResetForWindow(heap, ref), LAMBDA h0 :
       Bind(RegExpTest(pattern.regex.source, chunk, h0[ref[1]][ref[2]]), LAMBDA t :
            [found |-> t.found, heap |-> SetLastIndex(h0, ref, t.lastIndex)])))

RECURSIVE ForLoop(_, _, _, _, _, _)
RECURSIVE WhileLoop(_, _, _, _, _, _, _)
\* the for loop of _checkTextAsync from the i-th pattern on
ForLoop(text, patterns, i, matches, seenPatterns, heap) ==
    IF i > Len(patterns) THEN Returned(matches, heap)
    ELSE IF patterns[i].name \in seenPatterns
    THEN ForLoop(text, patterns, i + 1, matches, seenPatterns, heap)
    ELSE WhileLoop(text, patterns, i, 0, matches, seenPatterns,
                   SetLastIndex(heap, patterns[i].regex.ref, 0))

\* the while loop over the windows of pattern i, entered at its condition
WhileLoop(text, patterns, i, offset, matches, seenPatterns, heap) ==
    IF ~(offset < length(text))
    THEN ForLoop(text, patterns, i + 1, matches, seenPatterns, heap)
    ELSE Bind(TestWindow(text, patterns[i], offset, heap), LAMBDA w :
         IF w.found
         THEN ForLoop(text, patterns, i + 1,
                      Append(matches, Match(patterns[i].category, patterns[i].name)),
                      seenPatterns \cup {patterns[i].name}, w.heap)
         ELSE IF YieldsBefore(NextOffset(offset), length(text))
         THEN Suspended(i, NextOffset(offset), matches, seenPatterns, w.heap)
         ELSE WhileLoop(text, patterns, i, NextOffset(offset), matches,
                        seenPatterns, w.heap))

\* _checkTextAsync up to its first await or its return
_checkTextAsync(text, patterns, heap) == ForLoop(text, patterns, 1, << >>, {}, heap)

\* the filter is disabled: return before the cache is looked at
ReturnsEarlyNever(enabled) == FALSE

ReturnsEarlyIfEnabled(enabled) == enabled

ReturnsEarly(enabled) == ~enabled

\* the trace calls of checkForSensitiveData, named by their line
TraceLines == {138, 141, 146, 155}

Rejected(svc, heap, enabled) ==
    [pc |-> "rejected", svc |-> svc, heap |-> heap, enabled |-> enabled,
     patterns |-> << >>, i |-> 0, offset |-> 0, matches |-> << >>, seenPatterns |-> {}]

Resolved(svc, heap, enabled, matches) ==
    [pc |-> "resolved", svc |-> svc, heap |-> heap, enabled |-> enabled,
     patterns |-> << >>, i |-> 0, offset |-> 0, matches |-> matches, seenPatterns |-> {}]

\* checkForSensitiveData up to its first await or its settlement; logThrows
\* are the trace calls in which the log service throws
checkForSensitiveData(cfg, svc, heap, gen, text, logThrows) ==
    LET enabled == isEnabled(cfg)
    IN IF 138 \in logThrows THEN Rejected(svc, heap, enabled)
       ELSE IF ReturnsEarly(enabled)
       THEN IF 141 \in logThrows THEN Rejected(svc, heap, enabled)
            ELSE Resolved(svc, heap, enabled, << >>)
       ELSE LET c == _getCompiledPatterns(cfg, svc, heap, gen)
            IN IF c.threw \/ 146 \in logThrows THEN Rejected(c.svc, c.heap, enabled)
               ELSE IF Len(c.ret) = 0 THEN Resolved(c.svc, c.heap, enabled, << >>)
               ELSE IF length(text) <= CHUNK_SIZE
               THEN LET r == _checkTextSync(text, c.ret, c.heap)
                    IN IF 155 \in logThrows THEN Rejected(c.svc, r.heap, enabled)
                       ELSE Resolved(c.svc, r.heap, enabled, r.matches)
               ELSE LET r == _checkTextAsync(text, c.ret, c.heap)
                    IN [pc |-> r.pc, svc |-> c.svc, heap |-> r.heap, enabled |-> enabled,
                        patterns |-> IF r.pc = "yield" THEN c.ret ELSE << >>,
                        i |-> r.i, offset |-> r.offset,
                        matches |-> r.matches, seenPatterns |-> r.seenPatterns]

\* ------------------------------------------------------------------------
\* State
\* ------------------------------------------------------------------------
VARIABLES
    config,   \* the settings: enabled, useBuiltIn, customPatterns, and a
              \* setting of the same configuration service the filter has
              \* no use for (otherSetting)
    svc,      \* the service's fields _activePatterns and _compiledPatterns
    heap,     \* lastIndex of the RegExp objects, by build and position
    scans     \* the calls of checkForSensitiveData, by ScanIds

vars == <<config, svc, heap, scans>>

\* a call: pc is "idle" (no call), "yield" (suspended at the await),
\* "resolved" or "rejected"; text, patterns (the local compiledPatterns), i,
\* offset, matches and seenPatterns are the locals of the call; enabled is the
\* flag the call read; cfg is the configuration at its start
Idle ==
    [pc |-> "idle", text |-> << >>, enabled |-> FALSE, patterns |-> << >>,
     i |-> 0, offset |-> 0, matches |-> << >>, seenPatterns |-> {},
     cfg |-> [enabled |-> FALSE, useBuiltIn |-> TRUE, customPatterns |-> << >>]]

\* the three settings of the filter
Settings(cfg) ==
    [enabled |-> cfg.enabled, useBuiltIn |-> cfg.useBuiltIn,
     customPatterns |-> cfg.customPatterns]

\* the build whose objects a list of compiled patterns refers to; -1 if none
GenOf(patterns) == IF patterns = << >> THEN -1 ELSE patterns[1].regex.ref[1]

\* who can refer to RegExp objects: the cache (0) and the calls
Holders == {0} \cup ScanIds

GenAt(s, sc, holder) ==
    IF holder = 0
    THEN IF s._compiledPatterns.def THEN GenOf(s._compiledPatterns.val) ELSE -1
    ELSE GenOf(sc[holder].patterns)

\* the builds whose objects the cache or a suspended call still refers to
LiveGens(s, sc) == {GenAt(s, sc, holder) : holder \in Holders} \ {-1}

\* the identity of an object is not observable: builds are named by the rank
\* of their first holder, and objects nothing refers to are gone
Rank(s, sc, gen) ==
    LET first == CHOOSE holder \in Holders :
                     /\ GenAt(s, sc, holder) = gen
                     /\ \A h \in Holders : GenAt(s, sc, h) = gen => holder <= h
    IN Cardinality({GenAt(s, sc, h) : h \in {h \in Holders : h < first}} \ {-1})

Renamed(s, sc, patterns) ==
    [k \in 1..Len(patterns) |->
        [patterns[k] EXCEPT !.regex.ref = <<Rank(s, sc, patterns[k].regex.ref[1]),
                                            patterns[k].regex.ref[2]>>]]

CollectSvc(s, sc) ==
    IF s._compiledPatterns.def
    THEN [s EXCEPT !._compiledPatterns = Defined(Renamed(s, sc, s._compiledPatterns.val))]
    ELSE s

CollectScans(s, sc) ==
    [id \in ScanIds |-> [sc[id] EXCEPT !.patterns = Renamed(s, sc, sc[id].patterns)]]

CollectHeap(h, s, sc) ==
    [g \in Gens |->
        IF \E old \in LiveGens(s, sc) : Rank(s, sc, old) = g
        THEN h[CHOOSE old \in LiveGens(s, sc) : Rank(s, sc, old) = g]
        ELSE << >>]

\* a build not yet in use
FreshGen(s, sc) == CHOOSE g \in Gens : g \notin LiveGens(s, sc)

\* a settled call is held until its caller has taken the outcome; the caller
\* takes it before the configuration or the cache is touched again
Settled(id) == scans[id].pc \in {"resolved", "rejected"}

NoneSettled == \A id \in ScanIds : ~Settled(id)

Init ==
    /\ config = [enabled |-> FALSE, useBuiltIn |-> TRUE, customPatterns |-> << >>,
                 otherSetting |-> FALSE]
    /\ svc = [_compiledPatterns |-> UNDEFINED, _activePatterns |-> UNDEFINED]
    /\ heap = [g \in Gens |-> << >>]
    /\ scans = [id \in ScanIds |-> Idle]

\* ------------------------------------------------------------------------
\* Actions
\* ------------------------------------------------------------------------
Occupied(scan) == scan.pc # "idle"

\* calls are named by their rank among the calls not yet taken
Compact(sc) ==
    LET occupied == SelectSeq(sc, Occupied)
    IN [id \in ScanIds |-> IF id <= Len(occupied) THEN occupied[id] ELSE Idle]

\* the state an action leaves
Commit(s, h, sc) ==
    LET compact == Compact(sc)
    IN /\ svc' = CollectSvc(s, compact)
       /\ scans' = CollectScans(s, compact)
       /\ heap' = CollectHeap(h, s, compact)

\* a caller calls checkForSensitiveData(text); it runs to its first await or
\* to its settlement
Started(id, text, r) ==
    /\ Commit(r.svc, r.heap,
              [scans EXCEPT ![id] =
                  [pc |-> r.pc, text |-> text, enabled |-> r.enabled,
                   patterns |-> r.patterns, i |-> r.i, offset |-> r.offset,
                   matches |-> r.matches, seenPatterns |-> r.seenPatterns,
                   cfg |-> Settings(config)]])
    /\ UNCHANGED config

CanStart(id) ==
    /\ scans[id].pc = "idle"
    /\ \A other \in ScanIds : other < id => scans[other].pc # "idle"

\* no other call is suspended
Alone(id) == \A other \in ScanIds \ {id} : scans[other].pc # "yield"

\* calls overlap, but one call at a time is suspended: a call that would be
\* the second suspended one is not started
CheckForSensitiveData(id, text) ==
    /\ CanStart(id)
    /\ LET r == checkForSensitiveData(config, svc, heap, FreshGen(svc, scans), text, {})
       IN /\ r.pc = "yield" => Alone(id)
          /\ Started(id, text, r)

\* the same call, with a log service that throws in one of the trace calls
CheckForSensitiveDataLogThrows(id, text, line) ==
    /\ CanStart(id)
    /\ LET r == checkForSensitiveData(config, svc, heap, FreshGen(svc, scans), text, {line})
       IN /\ r.pc = "yield" => Alone(id)
          /\ Started(id, text, r)

\* the list a suspended call goes on with: its parameter patterns, the list
\* checkForSensitiveData fetched at its start
LocalPatternsFromCache(sc, s) ==
    IF s._compiledPatterns.def /\ Len(s._compiledPatterns.val) >= sc.i
    THEN s._compiledPatterns.val
    ELSE sc.patterns

LocalPatternsWhileEnabled(sc, s) ==
    IF config.enabled THEN sc.patterns ELSE SubSeq(sc.patterns, 1, sc.i)

LocalPatterns(sc, s) == sc.patterns

\* the timer of _yieldToEventLoop fires: the call goes on to its next await
\* or to its return
Resume(id) ==
    /\ scans[id].pc = "yield"
    /\ \E sc \in {scans[id]} :
       \E r \in {WhileLoop(sc.text, LocalPatterns(sc, svc), sc.i, sc.offset, sc.matches,
                            sc.seenPatterns, heap)} :
       \E next \in {[scans EXCEPT ![id] =
                        [sc EXCEPT !.pc = r.pc, !.i = r.i, !.offset = r.offset,
                                   !.matches = r.matches,
                                   !.seenPatterns = r.seenPatterns,
                                   !.patterns = IF r.pc = "yield" THEN sc.patterns
                                                ELSE << >>]]} :
           Commit(svc, r.heap, next)
    /\ UNCHANGED config

\* the caller has taken the outcome of a settled call
Release(id) ==
    /\ Settled(id)
    /\ Commit(svc, heap, [scans EXCEPT ![id] = Idle])
    /\ UNCHANGED config

\* a caller calls getActivePatterns()
GetActivePatterns ==
    /\ NoneSettled
    /\ svc' = getActivePatterns(config, svc).svc
    /\ UNCHANGED <<config, heap, scans>>

\* a caller calls invalidateCache()
InvalidateCache ==
    /\ NoneSettled
    /\ Commit(invalidateCache(svc), heap, scans)
    /\ UNCHANGED config

\* the listener the constructor registers with onDidChangeConfiguration
ConfigKeys == {"Enabled", "CustomPatterns", "UseBuiltInPatterns"}

onDidChangeConfigurationForgetsCustom(s, affected) ==
    IF affected \cap {"Enabled", "UseBuiltInPatterns"} # {} THEN invalidateCache(s) ELSE s

onDidChangeConfigurationOfAny(s, affected) == invalidateCache(s)

onDidChangeConfiguration(s, affected) ==
    IF affected \cap ConfigKeys # {} THEN invalidateCache(s) ELSE s

\* a setting changes and the configuration service notifies its listeners
Changed(cfg, key) ==
    /\ NoneSettled
    /\ cfg # config
    /\ config' = cfg
    /\ Commit(onDidChangeConfiguration(svc, {key}), heap, scans)

SetEnabled(value) == Changed([config EXCEPT !.enabled = value], "Enabled")

SetUseBuiltInPatterns(value) ==
    Changed([config EXCEPT !.useBuiltIn = value], "UseBuiltInPatterns")

SetCustomPatterns(value) ==
    Changed([config EXCEPT !.customPatterns = value], "CustomPatterns")

\* a setting the filter has no use for changes: the listener is notified
SetOtherSetting(value) ==
    Changed([config EXCEPT !.otherSetting = value], "OtherSetting")

Next ==
    \/ \E id \in ScanIds, text \in Texts : CheckForSensitiveData(id, text)
    \/ \E id \in ScanIds : Resume(id)
    \/ \E id \in ScanIds : Release(id)
    \/ GetActivePatterns
    \/ InvalidateCache
    \/ \E value \in BOOLEAN : SetEnabled(value)
    \/ \E value \in BOOLEAN : SetUseBuiltInPatterns(value)
    \/ \E value \in CustomLists : SetCustomPatterns(value)

Spec == Init /\ [][Next]_vars

\* the custom pattern setting can hold what its declared type excludes
NextUntyped ==
    \/ Next
    \/ \E value \in UntypedCustomLists : SetCustomPatterns(value)

SpecUntyped == Init /\ [][NextUntyped]_vars

\* the log service can throw
NextLogThrows ==
    \/ Next
    \/ \E id \in ScanIds, text \in Texts, line \in TraceLines :
           CheckForSensitiveDataLogThrows(id, text, line)

SpecLogThrows == Init /\ [][NextLogThrows]_vars

\* the custom pattern setting can hold an expression that matches the empty
\* string
NextNullable ==
    \/ Next
    \/ \E value \in NullableCustomLists : SetCustomPatterns(value)

SpecNullable == Init /\ [][NextNullable]_vars

\* the other settings of the configuration service change too
NextOtherSetting ==
    \/ Next
    \/ \E value \in BOOLEAN : SetOtherSetting(value)

SpecOtherSetting == Init /\ [][NextOtherSetting]_vars

\* calls that are suspended at the same time: a call is started whatever the
\* other calls are at
CheckForSensitiveDataConcurrent(id, text) ==
    /\ CanStart(id)
    /\ Started(id, text,
               checkForSensitiveData(config, svc, heap, FreshGen(svc, scans), text, {}))

AllIdle == \A id \in ScanIds : scans[id].pc = "idle"

\* the settings change between the calls, not during them, so that the calls
\* in flight share the matchers of the cache
NextConcurrent ==
    \/ \E id \in ScanIds, text \in Texts : CheckForSensitiveDataConcurrent(id, text)
    \/ \E id \in ScanIds : Resume(id)
    \/ \E id \in ScanIds : Release(id)
    \/ AllIdle /\ \E value \in BOOLEAN : SetEnabled(value)
    \/ AllIdle /\ \E value \in BOOLEAN : SetUseBuiltInPatterns(value)
    \/ AllIdle /\ \E value \in CustomLists : SetCustomPatterns(value)

SpecConcurrent == Init /\ [][NextConcurrent]_vars

\* the host's timers fire: the continuation of every suspended call is run in
\* the end, whatever other calls are suspended with it
SpecFair == SpecConcurrent /\ \A id \in ScanIds : WF_vars(Resume(id))

\* ------------------------------------------------------------------------
\* Notions the properties are stated with
\* ------------------------------------------------------------------------
\* the rules of a configuration: the registry output, computed afresh
ActiveOf(cfg) ==
    MergeCustom(IF cfg.useBuiltIn THEN BUILT_IN_PATTERNS ELSE << >>,
                cfg.customPatterns).patterns

Compiles(pattern) == ~RegExpThrows(pattern.pattern)

\* a compiled pattern without the identity of its RegExp object
Describe(patterns) ==
    [k \in 1..Len(patterns) |->
        Pattern(patterns[k].name, patterns[k].category, patterns[k].regex.source)]

\* a scan that runs alone, on matchers of its own, to its return
RECURSIVE RunAlone(_, _, _)
RunAlone(text, patterns, r) ==
    IF r.pc = "yield"
    THEN RunAlone(text, patterns,
                  WhileLoop(text, patterns, r.i, r.offset, r.matches, r.seenPatterns, r.heap))
    ELSE r.matches

ScanAlone(cfg, text) ==
    LET patterns == Compile(ActiveOf(cfg), << >>, 0)
        own == [g \in Gens |-> IF g = 0 THEN [k \in 1..Len(patterns) |-> 0] ELSE << >>]
    IN IF Len(patterns) = 0 THEN << >>
       ELSE IF length(text) <= CHUNK_SIZE THEN _checkTextSync(text, patterns, own).matches
       ELSE RunAlone(text, patterns, _checkTextAsync(text, patterns, own))

\* a single test of the expression against the whole text
MatchesWhole(source, text) == RegExpTest(source, text, 0).found

Names(matches) == {matches[k].patternName : k \in 1..Len(matches)}

ResolvedEnabled(id) == scans[id].pc = "resolved" /\ scans[id].enabled

\* the text has an occurrence of the expression that starts in the chunk
\* before the k-th chunk boundary and ends after the boundary, at most overlap
\* characters after it
StraddlesIn(source, text, i, k) ==
    LET s == Fold(text)
        a == RunStart(s, i)
        b == RunEnd(s, i)
        n == source.n
        lo == Max(Max(a, (k - 1) * CHUNK_SIZE), k * CHUNK_SIZE - n + 1)
        hi == Min(Min(b - n, k * CHUNK_SIZE - 1), k * CHUNK_SIZE + overlap - n)
    IN /\ s[i].c = ToLower(source.c)
       /\ IF source.kind = "run" THEN lo <= hi
          ELSE MatchInRun(source, s, i, 0) = a /\ lo <= a /\ a <= hi

Straddles(source, text) ==
    \E i \in 1..Len(Fold(text)), k \in 1..(length(text) \div CHUNK_SIZE) :
        StraddlesIn(source, text, i, k)

\* ------------------------------------------------------------------------
\* Properties
\* ------------------------------------------------------------------------
\* C1: a call made while the enabled flag is false resolves at once to the
\* empty collection, whatever the text, and leaves the cached fields as they
\* were (the compiled cache is not built).
C1_DisabledReturnsEmpty ==
    [][\A id \in ScanIds :
          (scans[id].pc = "idle" /\ scans'[id].pc # "idle" /\ ~config.enabled)
          => /\ scans'[id].pc = "resolved"
             /\ scans'[id].matches = << >>
             /\ svc' = svc]_vars

C1_Witness ==
    \E id \in ScanIds :
        /\ scans[id].pc = "resolved"
        /\ ~scans[id].enabled
        /\ scans[id].matches = << >>
        /\ ScanAlone(scans[id].cfg, scans[id].text) # << >>
        /\ ~svc._compiledPatterns.def

\* C2: whenever the compiled cache is present it is the compilation of the
\* registry output for the current use-built-in flag and the current custom
\* list.
C2_CacheIsCurrent ==
    svc._compiledPatterns.def =>
        Describe(svc._compiledPatterns.val) = Describe(Compile(ActiveOf(config), << >>, 0))

C2_Witness ==
    /\ svc._compiledPatterns.def
    /\ ~config.useBuiltIn
    /\ Len(config.customPatterns) = 1
    /\ Len(svc._compiledPatterns.val) = 1

\* C3: the result of a scan is the one computed from the configuration as it
\* was at the start of the scan: it reports what a scan with freshly compiled
\* matchers of that configuration reports, so no rule of a replaced custom
\* list is reported and the rules of the current list are.
C3_NoStaleResult ==
    \A id \in ScanIds :
        ResolvedEnabled(id) => scans[id].matches = ScanAlone(scans[id].cfg, scans[id].text)

C3_Witness ==
    \E id \in ScanIds :
        /\ ResolvedEnabled(id)
        /\ Len(scans[id].cfg.customPatterns) = 1
        /\ "Pattern 2" \in Names(scans[id].matches)
        /\ "Pattern 1" \notin Names(scans[id].matches)

\* C4: the compiled list is the active list without the rules whose expression
\* is rejected, in the same order; the call is not rejected, and every rule of
\* the batch that compiles and that a window detects is reported.
DetectedBy(source, text) ==
    IF length(text) <= CHUNK_SIZE THEN MatchesWhole(source, text)
    ELSE \E k \in 0..(length(text) \div CHUNK_SIZE) :
            /\ k * CHUNK_SIZE < length(text)
            /\ MatchesWhole(source,
                            slice(text, k * CHUNK_SIZE,
                                  WindowEnd(k * CHUNK_SIZE, length(text))))

C4_BadPatternOnlyRemovesItself ==
    /\ svc._compiledPatterns.def =>
          /\ svc._activePatterns.def
          /\ Describe(svc._compiledPatterns.val) = SelectSeq(svc._activePatterns.val, Compiles)
    /\ \A id \in ScanIds :
          /\ scans[id].pc # "rejected"
          /\ ResolvedEnabled(id) =>
                \A k \in 1..Len(ActiveOf(scans[id].cfg)) :
                    LET rule == ActiveOf(scans[id].cfg)[k]
                    IN (Compiles(rule) /\ DetectedBy(rule.pattern, scans[id].text))
                       => rule.name \in Names(scans[id].matches)

C4_Witness ==
    \E id \in ScanIds :
        LET custom == scans[id].cfg.customPatterns
        IN /\ ResolvedEnabled(id)
           /\ ~scans[id].cfg.useBuiltIn
           /\ \E a, j, b \in 1..Len(custom) :
                 /\ a < j /\ j < b
                 /\ custom[j].pattern.kind = "bad"
                 /\ custom[a].name \in Names(scans[id].matches)
                 /\ custom[b].name \in Names(scans[id].matches)

\* C5: on the large-input path, a matcher with an occurrence that starts in
\* the chunk before a chunk boundary and ends at most 100 characters after
\* the boundary is reported.
C5_StraddlingOccurrenceDetected ==
    \A id \in ScanIds :
        (ResolvedEnabled(id) /\ length(scans[id].text) > CHUNK_SIZE) =>
            \A k \in 1..Len(ActiveOf(scans[id].cfg)) :
                LET rule == ActiveOf(scans[id].cfg)[k]
                IN (Compiles(rule) /\ Straddles(rule.pattern, scans[id].text))
                   => rule.name \in Names(scans[id].matches)

C5_Witness ==
    \E id \in ScanIds :
        /\ ResolvedEnabled(id)
        /\ length(scans[id].text) > CHUNK_SIZE
        /\ \E k \in 1..Len(ActiveOf(scans[id].cfg)) :
              LET rule == ActiveOf(scans[id].cfg)[k]
              IN /\ Compiles(rule)
                 /\ rule.pattern.n = 140
                 /\ Straddles(rule.pattern, scans[id].text)
                 /\ rule.name \in Names(scans[id].matches)

\* C6: on the large-input path, every matcher that matches the whole text is
\* reported, whatever the length and the place of its occurrence.
C6_ChunkedScanMissesNothing ==
    \A id \in ScanIds :
        (ResolvedEnabled(id) /\ length(scans[id].text) > CHUNK_SIZE) =>
            \A k \in 1..Len(ActiveOf(scans[id].cfg)) :
                LET rule == ActiveOf(scans[id].cfg)[k]
                IN (Compiles(rule) /\ MatchesWhole(rule.pattern, scans[id].text))
                   => rule.name \in Names(scans[id].matches)

\* C7: two calls with the same text, made under the same configuration,
\* return equal Match collections.
C7_Idempotent ==
    \A a, b \in ScanIds :
        (/\ scans[a].pc = "resolved" /\ scans[b].pc = "resolved"
         /\ scans[a].text = scans[b].text
         /\ scans[a].cfg = scans[b].cfg)
        => scans[a].matches = scans[b].matches

\* the second call has returned and the matchers of the cache, which both
\* calls used, are left with a search position
C7_Witness ==
    \E a, b \in ScanIds :
        /\ a < b
        /\ scans[a].pc = "resolved" /\ scans[b].pc = "resolved"
        /\ scans[a].text = scans[b].text
        /\ scans[a].cfg = scans[b].cfg
        /\ scans[b].cfg = Settings(config)
        /\ Len(scans[b].matches) > 1
        /\ \E g \in Gens : \E k \in 1..Len(heap[g]) : heap[g][k] > 0

\* C8: no two Matches of one call have the same patternName.
C8_OneMatchPerName ==
    \A id \in ScanIds :
        \A j, k \in 1..Len(scans[id].matches) :
            scans[id].matches[j].patternName = scans[id].matches[k].patternName => j = k

\* two rules of the same name both match the text of the call
C8_Witness ==
    \E id \in ScanIds :
        /\ ResolvedEnabled(id)
        /\ \E j, k \in 1..Len(ActiveOf(scans[id].cfg)) :
              LET first == ActiveOf(scans[id].cfg)[j]
                  second == ActiveOf(scans[id].cfg)[k]
              IN /\ j < k
                 /\ first.name = second.name
                 /\ Compiles(first) /\ Compiles(second)
                 /\ MatchesWhole(first.pattern, scans[id].text)
                 /\ MatchesWhole(second.pattern, scans[id].text)
                 /\ first.name \in Names(scans[id].matches)

\* C9: no call is rejected, whatever the text and the configuration.
C9_ScanNeverFails == \A id \in ScanIds : scans[id].pc # "rejected"

\* C10: a call in which a trace call fails still resolves, to the Match
\* collection it returns when logging succeeds.
C10_LoggingNeverAffectsResult ==
    \A id \in ScanIds :
        Settled(id) =>
            /\ scans[id].pc = "resolved"
            /\ scans[id].matches = IF scans[id].enabled
                                   THEN ScanAlone(scans[id].cfg, scans[id].text)
                                   ELSE << >>

Categories(matches) == {matches[k].category : k \in 1..Len(matches)}

\* the k-th rule is the first of its name that the scan detects in the text
FirstDetectedOfName(rules, k, text) ==
    \A j \in 1..(k - 1) :
        ~(/\ rules[j].name = rules[k].name
          /\ Compiles(rules[j])
          /\ DetectedBy(rules[j].pattern, text))

Outcome(sc, h) ==
    RunAlone(sc.text, sc.patterns,
             [pc |-> sc.pc, i |-> sc.i, offset |-> sc.offset, matches |-> sc.matches,
              seenPatterns |-> sc.seenPatterns, heap |-> h])

\* C12: a large-input scan that is suspended holds the matcher list compiled
\* from the configuration at its start, whatever has happened to the cache and
\* to the configuration since, and from every point it is at, it returns what
\* the undisturbed scan of its text returns.
C12_ScanKeepsItsSnapshot ==
    \A id \in ScanIds :
        (scans[id].pc \in {"yield", "resolved"} /\ scans[id].enabled
         /\ length(scans[id].text) > CHUNK_SIZE)
        => /\ scans[id].pc = "yield" =>
                 /\ scans[id].i \in 1..Len(scans[id].patterns)
                 /\ Describe(scans[id].patterns)
                        = Describe(Compile(ActiveOf(scans[id].cfg), << >>, 0))
           /\ Outcome(scans[id], heap) = ScanAlone(scans[id].cfg, scans[id].text)

\* a scan is suspended, the configuration has changed since its start and
\* another call has rebuilt the cache: the cache holds other matchers
C12_Witness ==
    \E id \in ScanIds :
        /\ scans[id].pc = "yield"
        /\ scans[id].cfg # Settings(config)
        /\ svc._compiledPatterns.def
        /\ Describe(svc._compiledPatterns.val) # Describe(scans[id].patterns)
        /\ Len(ScanAlone(scans[id].cfg, scans[id].text)) > 1

\* C13: with large-input scans suspended at the same time on the matchers of
\* one cache and resumed in any order, every scan returns the Match collection
\* it returns when it runs alone on its text.
C13_InterleavedScansReturnAlone ==
    \A id \in ScanIds :
        (ResolvedEnabled(id) /\ length(scans[id].text) > CHUNK_SIZE)
        => scans[id].matches = ScanAlone(scans[id].cfg, scans[id].text)

\* a scan that started after another one has returned with Matches while the
\* older one is still suspended, in a matcher whose search position the
\* other scan has left behind its match
C13_Witness ==
    \E a, b \in ScanIds :
        /\ b < a
        /\ ResolvedEnabled(a)
        /\ length(scans[a].text) > CHUNK_SIZE
        /\ scans[a].matches # << >>
        /\ scans[b].pc = "yield"
        /\ scans[b].cfg = scans[a].cfg
        /\ LET ref == scans[b].patterns[scans[b].i].regex.ref
           IN heap[ref[1]][ref[2]] > 0

\* C14: when the notification of a change of the enabled flag, of the
\* use-built-in flag or of the custom list has been handled, the active
\* patterns and the compiled patterns are both absent; after the notification
\* of a change of another setting both are as they were.
C14_ChangeInvalidates ==
    [][config' # config =>
          IF Settings(config') # Settings(config)
          THEN ~svc'._activePatterns.def /\ ~svc'._compiledPatterns.def
          ELSE svc' = svc]_vars

\* the other setting has changed, the caches are present, and the scan that is
\* suspended works on the matchers of the cache
C14_Witness ==
    /\ config.otherSetting
    /\ svc._activePatterns.def
    /\ svc._compiledPatterns.def
    /\ \E id \in ScanIds :
          /\ scans[id].pc = "yield"
          /\ GenOf(scans[id].patterns) = GenOf(svc._compiledPatterns.val)

\* the sequence the registry is to return: the built-in table when the
\* use-built-in flag is on, then the custom entries with a non-empty name,
\* category and pattern, in the order of the setting
WellFormed(custom) ==
    custom.name # "" /\ custom.category # "" /\ custom.pattern # EmptySrc

Registry(cfg) ==
    LET kept == SelectSeq(cfg.customPatterns, WellFormed)
    IN (IF cfg.useBuiltIn THEN BUILT_IN_PATTERNS ELSE << >>)
       \o [k \in 1..Len(kept) |->
              Pattern(kept[k].name, kept[k].category, kept[k].pattern)]

CallNow(text) ==
    checkForSensitiveData(config, svc, heap, FreshGen(svc, scans), text, {})

\* C16 as stated: while the enabled flag is false, isEnabled,
\* checkForSensitiveData and getActivePatterns of the real service return what
\* those of the no-op variant return.
C16_NullEqualsDisabledService ==
    ~config.enabled =>
        /\ isEnabled(config) = NullIsEnabled
        /\ \A text \in Texts :
              /\ CallNow(text).pc = NullCheckForSensitiveData(text).pc
              /\ CallNow(text).matches = NullCheckForSensitiveData(text).matches
        /\ getActivePatterns(config, svc).ret = NullGetActivePatterns

\* C16: the no-op variant answers false to isEnabled, the empty collection to
\* checkForSensitiveData and no rule to getActivePatterns, and its
\* invalidateCache does not fail; while the enabled flag is false, isEnabled
\* and checkForSensitiveData of the real service return the same, for every
\* text and after every sequence of calls.
C16_NullEqualsDisabledScan ==
    /\ ~NullInvalidateCache.threw
    /\ ~config.enabled =>
          /\ isEnabled(config) = NullIsEnabled
          /\ \A text \in Texts :
                /\ CallNow(text).pc = NullCheckForSensitiveData(text).pc
                /\ CallNow(text).matches = NullCheckForSensitiveData(text).matches
    /\ \A id \in ScanIds :
          (Settled(id) /\ ~scans[id].enabled) =>
              /\ scans[id].pc = NullCheckForSensitiveData(scans[id].text).pc
              /\ scans[id].matches = NullCheckForSensitiveData(scans[id].text).matches

\* a call made while the flag is false has returned what the no-op variant
\* returns, for a text that has a Match when the flag is true, and the
\* registry of the real service is not the empty one of the no-op variant
C16_Witness ==
    \E id \in ScanIds :
        /\ scans[id].pc = "resolved"
        /\ ~scans[id].enabled
        /\ ~config.enabled
        /\ scans[id].matches = NullCheckForSensitiveData(scans[id].text).matches
        /\ ScanAlone([config EXCEPT !.enabled = TRUE], scans[id].text) # << >>
        /\ svc._activePatterns.def
        /\ svc._activePatterns.val # NullGetActivePatterns

\* the rules of the configuration that compile and that the scan detects in
\* the text, by their place in the sequence
DetectedRules(cfg, text) ==
    {k \in 1..Len(ActiveOf(cfg)) :
        Compiles(ActiveOf(cfg)[k]) /\ DetectedBy(ActiveOf(cfg)[k].pattern, text)}

\* C17: two scans under the same configuration, of texts in which the same
\* matchers are detected, return equal Match collections, whatever the places
\* and the number of the occurrences and whatever the matchers were used for
\* before; a Match has the fields category and patternName and no other.
C17_ResultIsFunctionOfDetectedRules ==
    /\ \A a, b \in ScanIds :
          (/\ ResolvedEnabled(a) /\ ResolvedEnabled(b)
           /\ scans[a].cfg = scans[b].cfg
           /\ DetectedRules(scans[a].cfg, scans[a].text)
                  = DetectedRules(scans[b].cfg, scans[b].text))
          => scans[a].matches = scans[b].matches
    /\ \A id \in ScanIds :
          \A k \in 1..Len(scans[id].matches) :
              DOMAIN scans[id].matches[k] = {"category", "patternName"}

\* a scan of a small text and a scan of a large text, with the same two
\* matchers detected at other places, have returned the same two Matches
C17_Witness ==
    \E a, b \in ScanIds :
        /\ ResolvedEnabled(a) /\ ResolvedEnabled(b)
        /\ scans[a].cfg = scans[b].cfg
        /\ length(scans[a].text) <= CHUNK_SIZE
        /\ length(scans[b].text) > CHUNK_SIZE
        /\ Cardinality(DetectedRules(scans[a].cfg, scans[a].text)) = 2
        /\ DetectedRules(scans[a].cfg, scans[a].text)
               = DetectedRules(scans[b].cfg, scans[b].text)
        /\ Len(scans[a].matches) = 2
        /\ scans[a].matches = scans[b].matches

\* the names of the compiled rules of a configuration whose expression
\* matches the empty text
NamesMatchingEmpty(cfg) ==
    {ActiveOf(cfg)[k].name : k \in
        {j \in 1..Len(ActiveOf(cfg)) :
            Compiles(ActiveOf(cfg)[j]) /\ MatchesWhole(ActiveOf(cfg)[j].pattern, << >>)}}

\* C18 as stated: for every configuration a call on the empty text is never
\* suspended and resolves to the empty collection.
C18_EmptyTextYieldsNoMatch ==
    \A id \in ScanIds :
        (Occupied(scans[id]) /\ scans[id].text = << >>)
        => scans[id].pc = "resolved" /\ scans[id].matches = << >>

\* C18: for every configuration a call on the empty text is never suspended
\* (it takes the small-input path and tests no window) and resolves to the
\* Matches of the compiled rules whose expression matches the empty string:
\* to the empty collection when no rule does, as with the built-in table.
C18_EmptyTextReportsOnlyNullableRules ==
    \A id \in ScanIds :
        (Occupied(scans[id]) /\ scans[id].text = << >>)
        => /\ scans[id].pc = "resolved"
           /\ Names(scans[id].matches)
                  = IF scans[id].enabled THEN NamesMatchingEmpty(scans[id].cfg) ELSE {}
           /\ Len(scans[id].matches) = Cardinality(Names(scans[id].matches))

\* the call on the empty text was made with the filter enabled and matchers
\* compiled from the built-in table and the custom list, and has no Match
C18_Witness ==
    \E id \in ScanIds :
        /\ ResolvedEnabled(id)
        /\ scans[id].text = << >>
        /\ scans[id].cfg.useBuiltIn
        /\ Len(Compile(ActiveOf(scans[id].cfg), << >>, 0)) > Len(BUILT_IN_PATTERNS)
        /\ scans[id].matches = << >>

\* what a call of checkForSensitiveData(text) made now, with the settings
\* cfg, settles to at once
CallUnder(cfg, text) ==
    checkForSensitiveData(cfg, svc, heap, FreshGen(svc, scans), text, {})

\* C19: a call made while the enabled flag is false leaves the active
\* patterns, the compiled patterns and the matchers exactly as they are,
\* absent or present, and its outcome is the same whatever the use-built-in
\* flag and the custom list are: they are not read.
C19_DisabledCallTouchesNothing ==
    \A text \in Texts, useBuiltIn \in BOOLEAN, customPatterns \in CustomLists :
        LET off == [config EXCEPT !.enabled = FALSE]
            other == [off EXCEPT !.useBuiltIn = useBuiltIn,
                                 !.customPatterns = customPatterns]
        IN /\ CallUnder(off, text).svc = svc
           /\ CallUnder(off, text).heap = heap
           /\ CallUnder(other, text) = CallUnder(off, text)

\* a call on a large text has returned while the flag is false; the active
\* patterns are present, as they were, and the compiled patterns absent
C19_Witness ==
    \E id \in ScanIds :
        /\ scans[id].pc = "resolved"
        /\ ~scans[id].enabled
        /\ length(scans[id].text) > CHUNK_SIZE
        /\ ~config.enabled
        /\ svc._activePatterns.def
        /\ Len(svc._activePatterns.val) > Len(BUILT_IN_PATTERNS)
        /\ ~svc._compiledPatterns.def

ScanStarts == \E id \in ScanIds : scans[id].pc = "idle" /\ scans'[id].pc # "idle"

\* C21: invalidateCache leaves both caches absent in every state, the initial
\* one included, and a second invalidateCache changes nothing more; a step in
\* which a present cache goes leaves both absent and builds nothing; the
\* active patterns become present only in a getActivePatterns call or in a
\* call of checkForSensitiveData that starts with the filter enabled, the
\* compiled patterns only in the latter, never in a change of the settings;
\* a cache that is present is returned as it is and stays as it is until it
\* is cleared.
C21_InvalidationIsLazyAndIdempotent ==
    [][/\ ~invalidateCache(svc)._activePatterns.def
       /\ ~invalidateCache(svc)._compiledPatterns.def
       /\ invalidateCache(invalidateCache(svc)) = invalidateCache(svc)
       /\ ((svc._activePatterns.def /\ ~svc'._activePatterns.def)
           \/ (svc._compiledPatterns.def /\ ~svc'._compiledPatterns.def))
          => (~svc'._activePatterns.def /\ ~svc'._compiledPatterns.def)
       /\ (~svc._activePatterns.def /\ svc'._activePatterns.def)
          => /\ config' = config
             /\ (ScanStarts /\ config.enabled) \/ (scans' = scans /\ heap' = heap)
       /\ (~svc._compiledPatterns.def /\ svc'._compiledPatterns.def)
          => (config' = config /\ ScanStarts /\ config.enabled)
       /\ svc._activePatterns.def
          => /\ getActivePatterns(config, svc).ret = svc._activePatterns.val
             /\ getActivePatterns(config, svc).svc = svc
             /\ svc'._activePatterns.def => svc'._activePatterns = svc._activePatterns
       /\ svc._compiledPatterns.def
          => LET c == _getCompiledPatterns(config, svc, heap, FreshGen(svc, scans))
             IN /\ c.ret = svc._compiledPatterns.val
                /\ c.svc = svc /\ c.heap = heap
                /\ svc'._compiledPatterns.def
                   => Describe(svc'._compiledPatterns.val)
                          = Describe(svc._compiledPatterns.val)]_vars

\* the caches were built for the current settings, a scan that fetched the
\* compiled patterns is still suspended, and both caches are absent: they
\* were cleared and nothing has rebuilt them
C21_Witness ==
    \E id \in ScanIds :
        /\ scans[id].pc = "yield"
        /\ scans[id].cfg = Settings(config)
        /\ config.enabled
        /\ ~svc._activePatterns.def
        /\ ~svc._compiledPatterns.def

\* the places, in the sequence of the configuration, of the compiled rules of
\* a name that match the text in a single test of the whole text
MatchingOfName(cfg, name, text) ==
    {k \in 1..Len(ActiveOf(cfg)) :
        /\ ActiveOf(cfg)[k].name = name
        /\ Compiles(ActiveOf(cfg)[k])
        /\ MatchesWhole(ActiveOf(cfg)[k].pattern, text)}

Earliest(places) == CHOOSE k \in places : \A j \in places : k <= j

\* C22: on both paths, the result has a Match of a name exactly when a
\* compiled rule of that name matches the text; the Match has the category of
\* the earliest such rule in evaluation order, and the Matches are in the
\* order of these earliest rules.
C22_FirstMatchWins ==
    \A id \in ScanIds :
        ResolvedEnabled(id) =>
            LET cfg == scans[id].cfg
                text == scans[id].text
                matches == scans[id].matches
            IN /\ \A k \in 1..Len(ActiveOf(cfg)) :
                      LET name == ActiveOf(cfg)[k].name
                      IN Compiles(ActiveOf(cfg)[k]) =>
                            (name \in Names(matches) <=> MatchingOfName(cfg, name, text) # {})
               /\ \A m \in 1..Len(matches) :
                      LET places == MatchingOfName(cfg, matches[m].patternName, text)
                      IN /\ places # {}
                         /\ matches[m].category = ActiveOf(cfg)[Earliest(places)].category
                         /\ \A n \in 1..(m - 1) :
                                LET before == MatchingOfName(cfg, matches[n].patternName, text)
                                IN before # {} /\ Earliest(before) < Earliest(places)

\* the offsets at which a call on a text of this length can be suspended:
\* the starts of the windows after the first
WindowStarts(len) == {offset \in 1..len - 1 : offset % CHUNK_SIZE = 0}

C24_WindowsCreateNoMatch ==
    \A id \in ScanIds :
        (ResolvedEnabled(id) /\ length(scans[id].text) > CHUNK_SIZE) =>
            \A m \in 1..Len(scans[id].matches) :
                \E k \in 1..Len(ActiveOf(scans[id].cfg)) :
                    LET rule == ActiveOf(scans[id].cfg)[k]
                    IN /\ Match(rule.category, rule.name) = scans[id].matches[m]
                       /\ Compiles(rule)
                       /\ MatchesWhole(rule.pattern, scans[id].text)

\* the calls are where they were: a step of no call
ScansStay ==
    \A id \in ScanIds :
        [scans'[id] EXCEPT !.patterns = << >>] = [scans[id] EXCEPT !.patterns = << >>]

\* C25: in every reachable state in which the compiled cache is present the
\* active cache is present too, and the compiled cache is what compiling the
\* cached active list gives: the same rules in the same order without the
\* rejected ones, never more entries; so the one mixed state is the active
\* cache alone.  The active cache goes only together with the compiled cache,
\* in a step of the listener or of invalidateCache (a change of the settings,
\* or a step of no call).
C25_CachesAgree ==
    /\ [](svc._compiledPatterns.def =>
             /\ svc._activePatterns.def
             /\ Describe(svc._compiledPatterns.val)
                    = Describe(Compile(svc._activePatterns.val, << >>, 0))
             /\ Len(svc._compiledPatterns.val) <= Len(svc._activePatterns.val))
    /\ [][(svc._activePatterns.def /\ ~svc'._activePatterns.def)
             => /\ svc' = invalidateCache(svc)
                /\ config' # config \/ ScansStay]_vars

\* both caches are present and the compiled one is the shorter: a rule of the
\* cached active list was rejected
C25_Witness ==
    /\ svc._compiledPatterns.def
    /\ svc._activePatterns.def
    /\ Len(svc._compiledPatterns.val) < Len(svc._activePatterns.val)

\* the Matches of a text under a configuration: one for each rule that is
\* detected and is the first detected rule of its name, in the order of the
\* rules
Reported(cfg, text) ==
    LET rules == ActiveOf(cfg)
        firsts == {k \in DetectedRules(cfg, text) : FirstDetectedOfName(rules, k, text)}
        nth(m) == CHOOSE k \in firsts : Cardinality({j \in firsts : j < k}) = m - 1
    IN [m \in 1..Cardinality(firsts) |-> Match(rules[nth(m)].category, rules[nth(m)].name)]

\* C26: the flag a call goes by is the setting at its start.  A call that
\* started while the filter was enabled is the only kind that is ever
\* suspended, and when it has returned it has the Matches of its text under
\* the settings of its start, whether or not the filter has been disabled
\* since; a call that started while the filter was disabled has returned
\* empty.
C26_FlagIsReadAtTheStart ==
    \A id \in ScanIds :
        /\ scans[id].pc # "idle" => scans[id].enabled = scans[id].cfg.enabled
        /\ scans[id].pc = "yield" => scans[id].enabled
        /\ (scans[id].pc # "idle" /\ ~scans[id].cfg.enabled)
              => scans[id].pc = "resolved" /\ scans[id].matches = << >>
        /\ (ResolvedEnabled(id) /\ length(scans[id].text) > CHUNK_SIZE)
              => scans[id].matches = Reported(scans[id].cfg, scans[id].text)

\* the filter is disabled; a call that was suspended when it was disabled
\* has returned Matches, and a later call on the same text has returned empty
C26_Witness ==
    /\ ~config.enabled
    /\ ResolvedEnabled(1)
    /\ length(scans[1].text) > CHUNK_SIZE
    /\ Len(scans[1].matches) > 1
    /\ scans[2].pc = "resolved"
    /\ ~scans[2].enabled
    /\ scans[2].text = scans[1].text
    /\ scans[2].matches = << >>

====
